---- MODULE Spec2Model ----
(***************************************************************************)
(* Model of tooling/fetch_all_synapse_spark_metadata.py: the Synapse       *)
(* metadata inventory script.                                              *)
(*                                                                         *)
(* Two specifications share the module.                                    *)
(*   SpecWs : one iteration of the per-workspace loop body (the three      *)
(*            child fetchers, the two aggregations, the detail extractors  *)
(*            and the workspace_data record), with the raw records drawn   *)
(*            from bounded sets.                                           *)
(*   Spec   : the main run (process every configured subscription, then    *)
(*            the JSON exports and the final tally); a workspace record    *)
(*            of an export is kept as the workspace's name, its content    *)
(*            being what SpecWs models.                                    *)
(*                                                                         *)
(* Python values: a dict is a function whose DOMAIN is the set of keys     *)
(* present, a list is a sequence, None is the value None below.            *)
(***************************************************************************)
EXTENDS Integers, Sequences, FiniteSets, TLC

\* ------------------------------------------------------------------ bounds
MaxNotebooks == 3
MaxPools == 2
MaxJobs == 1
MaxAccounts == 2
MaxWorkspaces == 2

\* ---------------------------------------------------------- python values
None == [py_none |-> TRUE]
EmptyDict == <<>>

\* d.get(k, default)
Get(d, k, default) == IF k \in DOMAIN d THEN d[k] ELSE default

\* truth value of a dict-or-None operand of `if x` / `x if x else None`
Truthy(d) == d # None /\ DOMAIN d # {}

\* m[k] += 1 that drops the other labels when a new label appears
IncrForgettingOtherLabels(m, k) == IF k \in DOMAIN m THEN [m EXCEPT ![k] = @ + 1] ELSE (k :> 1)

\* m[k] = 1 on first sight and nothing afterwards
IncrOnce(m, k) == IF k \in DOMAIN m THEN m ELSE m @@ (k :> 1)

\* defaultdict(int): m[k] += 1
Incr(m, k) == IF k \in DOMAIN m THEN [m EXCEPT ![k] = @ + 1] ELSE m @@ (k :> 1)

\* the sequences over S of length at most n
RECURSIVE SeqsUpTo(_, _)
SeqsUpTo(S, n) ==
  IF n = 0 THEN {<<>>}
  ELSE LET shorter == SeqsUpTo(S, n - 1)
       IN shorter \cup {Append(s, x) : s \in {t \in shorter : Len(t) = n - 1}, x \in S}

\* ------------------------------------------------- raw records (the inputs)
PoolNames == {"p1", "p2"}
SparkVersions == {"3.3", "3.4"}

\* A notebook of the data plane: no bigDataPool block, or a reference to a
\* pool by name.
RawNotebooks ==
  {[name |-> "nb", properties |-> [nbformat |-> 4, nbformat_minor |-> 2]]}
  \cup {[name |-> "nb", properties |-> [nbformat |-> 4, nbformat_minor |-> 2,
           bigDataPool |-> [referenceName |-> p, type |-> "BigDataPoolReference"]]] : p \in PoolNames}

\* A Spark pool of the management plane, with or without a declared sparkVersion.
RawPools ==
  {[name |-> p, properties |-> [sparkVersion |-> v, nodeCount |-> 3]] : p \in PoolNames, v \in SparkVersions}
  \cup {[name |-> p, properties |-> [nodeCount |-> 3]] : p \in PoolNames}

\* A Spark job definition, with or without a declared requiredSparkVersion.
RawJobs ==
  {[name |-> "job", properties |-> [requiredSparkVersion |-> "3.3", language |-> "python"]],
   [name |-> "job", properties |-> [language |-> "python"]]}

\* What requests.get hands back: it raises (transport error), or it returns
\* a response with a status code and, on success, a JSON body.
ConnectionError == [exception |-> "ConnectionError"]
OkReplies(Items, n) ==
  {[status_code |-> 200, json |-> [value |-> s]] : s \in SeqsUpTo(Items, n)}
  \cup {[status_code |-> 200, json |-> EmptyDict]}
FailedReply == [status_code |-> 403, text |-> "Forbidden"]
Replies(Items, n) == OkReplies(Items, n) \cup {FailedReply, ConnectionError}

\* ---------------------------------------------------------------- fetchers
\* The outcome of a call: it raised, or it returned a value.
Raised == [raised |-> TRUE, value |-> None]
Return(v) == [raised |-> FALSE, value |-> v]

list_notebooks_raising(reply) ==
  IF reply = ConnectionError THEN Raised
  ELSE IF reply.status_code # 200 THEN Raised
  ELSE Return(Get(reply.json, "value", <<>>))

list_notebooks(reply) ==
  IF reply = ConnectionError THEN Raised
  ELSE IF reply.status_code # 200 THEN Return(<<>>)
  ELSE Return(Get(reply.json, "value", <<>>))

list_big_data_pools_raising(reply) ==
  IF reply = ConnectionError THEN Raised
  ELSE IF reply.status_code # 200 THEN Raised
  ELSE Return(Get(reply.json, "value", <<>>))

list_big_data_pools(reply) ==
  IF reply = ConnectionError THEN Raised
  ELSE IF reply.status_code # 200 THEN Return(<<>>)
  ELSE Return(Get(reply.json, "value", <<>>))

list_spark_job_definitions(reply) ==
  IF reply = ConnectionError THEN Raised
  ELSE IF reply.status_code # 200 THEN Return(<<>>)
  ELSE Return(Get(reply.json, "value", <<>>))

\* ------------------------------------------------------------- aggregators
\* next((p for p in pools if p.get("name") == pool_name), None)
RECURSIVE FirstMatch(_, _)
FirstMatch(ps, pool_name) ==
  IF ps = <<>> THEN None
  ELSE IF "name" \in DOMAIN Head(ps) /\ Head(ps).name = pool_name THEN Head(ps)
  ELSE FirstMatch(Tail(ps), pool_name)

RECURSIVE LastMatch(_, _)
LastMatch(ps, pool_name) ==
  IF ps = <<>> THEN None
  ELSE IF "name" \in DOMAIN ps[Len(ps)] /\ ps[Len(ps)].name = pool_name THEN ps[Len(ps)]
  ELSE LastMatch(SubSeq(ps, 1, Len(ps) - 1), pool_name)

MatchingPool(ps, pool_name) == FirstMatch(ps, pool_name)

\* The label one notebook is counted under.
ResolveUnknownWhenNoMatch(nb, ps) ==
  LET props == Get(nb, "properties", EmptyDict)
      pool == Get(props, "bigDataPool", EmptyDict)
  IN IF Truthy(pool) /\ "referenceName" \in DOMAIN pool
     THEN LET matching_pool == MatchingPool(ps, pool.referenceName)
          IN IF Truthy(matching_pool)
             THEN Get(Get(matching_pool, "properties", EmptyDict), "sparkVersion", "Unknown")
             ELSE "Unknown"
     ELSE "No pool attached"

ResolveSparkVersion(nb, ps) ==
  LET props == Get(nb, "properties", EmptyDict)
      pool == Get(props, "bigDataPool", EmptyDict)
  IN IF Truthy(pool) /\ "referenceName" \in DOMAIN pool
     THEN LET matching_pool == MatchingPool(ps, pool.referenceName)
          IN IF Truthy(matching_pool)
             THEN Get(Get(matching_pool, "properties", EmptyDict), "sparkVersion", "Unknown")
             ELSE "No pool attached"
     ELSE "No pool attached"

\* nb_by_runtime: for nb in notebooks: nb_by_runtime[spark_version] += 1
RECURSIVE CountNotebooks(_, _, _)
CountNotebooks(m, nbs, ps) ==
  IF nbs = <<>> THEN m
  ELSE CountNotebooks(Incr(m, ResolveSparkVersion(Head(nbs), ps)), Tail(nbs), ps)

NbByRuntime(nbs, ps) == CountNotebooks(EmptyDict, nbs, ps)

\* jobs_by_runtime: for job in jobs: jobs_by_runtime[runtime] += 1
JobRuntime(job) == Get(Get(job, "properties", EmptyDict), "requiredSparkVersion", "Unknown")

RECURSIVE CountJobs(_, _)
CountJobs(m, js) ==
  IF js = <<>> THEN m
  ELSE CountJobs(Incr(m, JobRuntime(Head(js))), Tail(js))

JobsByRuntime(js) == CountJobs(EmptyDict, js)

\* ------------------------------------------------------- resource group
\* A string is the sequence of its symbols; "/" is the separator and every
\* other symbol stands for a run of characters without a "/".
RECURSIVE Split(_)
Split(s) ==
  IF \A k \in 1..Len(s) : s[k] # "/" THEN <<s>>
  ELSE LET k == CHOOSE j \in 1..Len(s) : s[j] = "/" /\ \A h \in 1..(j - 1) : s[h] # "/"
       IN <<SubSeq(s, 1, k - 1)>> \o Split(SubSeq(s, k + 1, Len(s)))

Marker == <<"resourceGroups">>

\* parts.index(...) taken from the right
parse_resource_group_after_last_marker(resource_id) ==
  LET parts == Split(resource_id)
  IN IF \A k \in 1..Len(parts) : parts[k] # Marker THEN None
     ELSE LET rg_index == 1 + CHOOSE j \in 1..Len(parts) :
                                 parts[j] = Marker /\ \A h \in (j + 1)..Len(parts) : parts[h] # Marker
          IN IF rg_index > Len(parts) THEN None
             ELSE parts[rg_index]

parse_resource_group_from_id(resource_id) ==
  LET parts == Split(resource_id)
  IN IF \A k \in 1..Len(parts) : parts[k] # Marker THEN None          \* ValueError
     ELSE LET rg_index == 1 + CHOOSE j \in 1..Len(parts) :
                                 parts[j] = Marker /\ \A h \in 1..(j - 1) : parts[h] # Marker
          IN IF rg_index > Len(parts) THEN None                        \* IndexError
             ELSE parts[rg_index]

\* -------------------------------------------------------- detail extractors
extract_workspace_details(ws) ==
  LET props == Get(ws.as_dict, "properties", EmptyDict)
      pes == Get(props, "privateEndpointConnections", <<>>)
      pe_connections ==
        [k \in 1..Len(pes) |->
           LET pe == pes[k]
               pe_props == Get(pe, "properties", EmptyDict)
               pe_endpoint == Get(pe_props, "privateEndpoint", EmptyDict)
               pe_link_state == Get(pe_props, "privateLinkServiceConnectionState", EmptyDict)
           IN [name |-> Get(pe, "name", None),
               id |-> Get(pe, "id", None),
               type |-> Get(pe, "type", None),
               provisioning_state |-> Get(pe_props, "provisioningState", None),
               private_endpoint_id |-> Get(pe_endpoint, "id", None),
               link_status |-> Get(pe_link_state, "status", None),
               actions_required |-> Get(pe_link_state, "actionsRequired", None),
               description |-> Get(pe_link_state, "description", None)]]
      mvs == Get(props, "managedVirtualNetworkSettings", EmptyDict)
  IN [name |-> ws.name,
      id |-> ws.id,
      location |-> ws.location,
      provisioning_state |-> Get(props, "provisioningState", None),
      managed_resource_group |-> Get(props, "managedResourceGroupName", None),
      workspace_uid |-> Get(props, "workspaceUID", None),
      private_endpoint_connections |-> pe_connections,
      managed_vnet_settings |->
        [allowed_aad_tenants |-> Get(mvs, "allowedAadTenantIdsForLinking", <<>>),
         linked_access_check |-> Get(mvs, "linkedAccessCheckOnTargetResource", FALSE),
         prevent_data_exfiltration |-> Get(mvs, "preventDataExfiltration", FALSE)]]

extract_notebook_details(notebook) ==
  LET props == Get(notebook, "properties", EmptyDict)
      pool == Get(props, "bigDataPool", EmptyDict)
      session == Get(props, "sessionProperties", EmptyDict)
  IN [name |-> Get(notebook, "name", None),
      description |-> Get(props, "description", None),
      format |-> <<"v", Get(props, "nbformat", None), ".", Get(props, "nbformat_minor", None)>>,
      big_data_pool |->
        IF Truthy(pool)
        THEN [reference_name |-> Get(pool, "referenceName", None),
              type |-> Get(pool, "type", None)]
        ELSE None,
      session_properties |->
        IF Truthy(session)
        THEN [driver_memory |-> Get(session, "driverMemory", None),
              driver_cores |-> Get(session, "driverCores", None),
              executor_memory |-> Get(session, "executorMemory", None),
              executor_cores |-> Get(session, "executorCores", None),
              num_executors |-> Get(session, "numExecutors", None)]
        ELSE None]

extract_big_data_pool_details(pool) ==
  LET props == Get(pool, "properties", EmptyDict)
      auto_scale == Get(props, "autoScale", EmptyDict)
      auto_pause == Get(props, "autoPause", EmptyDict)
      dyn_alloc == Get(props, "dynamicExecutorAllocation", EmptyDict)
      lib_req == Get(props, "libraryRequirements", EmptyDict)
  IN [name |-> Get(pool, "name", None),
      spark_version |-> Get(props, "sparkVersion", None),
      provisioning_state |-> Get(props, "provisioningState", None),
      node_count |-> Get(props, "nodeCount", None),
      node_size |-> Get(props, "nodeSize", None),
      node_size_family |-> Get(props, "nodeSizeFamily", None),
      auto_scale |->
        IF Truthy(auto_scale)
        THEN [enabled |-> Get(auto_scale, "enabled", None),
              min_node_count |-> Get(auto_scale, "minNodeCount", None),
              max_node_count |-> Get(auto_scale, "maxNodeCount", None)]
        ELSE None,
      auto_pause |->
        IF Truthy(auto_pause)
        THEN [enabled |-> Get(auto_pause, "enabled", None),
              delay_minutes |-> Get(auto_pause, "delayInMinutes", None)]
        ELSE None,
      dynamic_executor_allocation |->
        IF Truthy(dyn_alloc)
        THEN [enabled |-> Get(dyn_alloc, "enabled", None),
              min_executors |-> Get(dyn_alloc, "minExecutors", None),
              max_executors |-> Get(dyn_alloc, "maxExecutors", None)]
        ELSE None,
      library_requirements |->
        IF Truthy(lib_req)
        THEN [filename |-> Get(lib_req, "filename", None),
              last_updated |-> Get(lib_req, "time", None)]
        ELSE None,
      custom_libraries_count |-> Len(Get(props, "customLibraries", <<>>))]

extract_spark_job_definition_details(job_def) ==
  LET props == Get(job_def, "properties", EmptyDict)
      pool == Get(props, "targetBigDataPool", EmptyDict)
      folder == Get(props, "folder", EmptyDict)
      job_props == Get(props, "jobProperties", EmptyDict)
  IN [name |-> Get(job_def, "name", None),
      id |-> Get(job_def, "id", None),
      type |-> Get(job_def, "type", None),
      etag |-> Get(job_def, "etag", None),
      description |-> Get(props, "description", None),
      required_spark_version |-> Get(props, "requiredSparkVersion", None),
      target_big_data_pool |->
        IF Truthy(pool)
        THEN [reference_name |-> Get(pool, "referenceName", None),
              type |-> Get(pool, "type", None)]
        ELSE None,
      folder |-> IF Truthy(folder) THEN Get(folder, "name", None) ELSE None,
      job_properties |->
        IF Truthy(job_props)
        THEN [name |-> Get(job_props, "name", None),
              file |-> Get(job_props, "file", None),
              class_name |-> Get(job_props, "className", None),
              language |-> Get(props, "language", None),
              driver_memory |-> Get(job_props, "driverMemory", None),
              driver_cores |-> Get(job_props, "driverCores", None),
              executor_memory |-> Get(job_props, "executorMemory", None),
              executor_cores |-> Get(job_props, "executorCores", None),
              num_executors |-> Get(job_props, "numExecutors", None),
              args |-> Get(job_props, "args", <<>>),
              jars |-> Get(job_props, "jars", <<>>),
              py_files |-> Get(job_props, "pyFiles", <<>>),
              files |-> Get(job_props, "files", <<>>),
              archives |-> Get(job_props, "archives", <<>>)]
        ELSE None]

\* ------------------------------------------------- the workspace_data record
NotebooksBlockCountingPools(nbs, ps) ==
  [count |-> Len(ps),
   by_runtime |-> NbByRuntime(nbs, ps),
   details |-> [k \in 1..Len(nbs) |-> extract_notebook_details(nbs[k])]]

NotebooksBlock(nbs, ps) ==
  [count |-> Len(nbs),
   by_runtime |-> NbByRuntime(nbs, ps),
   details |-> [k \in 1..Len(nbs) |-> extract_notebook_details(nbs[k])]]

PoolsBlock(ps) ==
  [count |-> Len(ps),
   details |-> [k \in 1..Len(ps) |-> extract_big_data_pool_details(ps[k])]]

JobsBlock(js) ==
  [count |-> Len(js),
   by_runtime |-> JobsByRuntime(js),
   details |-> [k \in 1..Len(js) |-> extract_spark_job_definition_details(js[k])]]

SummaryBlock(nbs, ps, js) ==
  [spark_pools |-> Len(ps),
   notebooks |-> Len(nbs),
   notebooks_by_runtime |-> NbByRuntime(nbs, ps),
   spark_job_definitions |-> Len(js),
   jobs_by_runtime |-> JobsByRuntime(js)]

WorkspaceData(ws, nbs, ps, js) ==
  [workspace_details |-> extract_workspace_details(ws),
   resource_group |-> parse_resource_group_from_id(ws.id),
   notebooks |-> NotebooksBlock(nbs, ps),
   big_data_pools |-> PoolsBlock(ps),
   spark_job_definitions |-> JobsBlock(js),
   summary |-> SummaryBlock(nbs, ps, js)]

\* ======================================================================
\* State
\* ======================================================================
VARIABLES
  \* --- one iteration of the per-workspace loop body (SpecWs)
  ws_pc,            \* position in the loop body
  ws,               \* the workspace object of this iteration
  replies,          \* what requests.get handed to each fetcher so far
  notebooks,        \* list_notebooks(...)
  pools,            \* list_big_data_pools(...)
  jobs,             \* list_spark_job_definitions(...)
  workspace_data,   \* the record appended to json_data["workspaces"]
  \* --- the main run (Spec)
  pc,                        \* position in __main__
  subscription_ids,          \* config['subscription_ids']
  idx,                       \* index of the subscription being handled
  successful_subscriptions,  \* the list of the same name
  frame,                     \* locals of the function being executed
  trace,                     \* per processed subscription: what its calls did
  calls,                     \* the export functions invoked so far, in order
  files,                     \* file name -> content written
  console                    \* the figures and messages printed at the end

wsVars == <<ws_pc, ws, replies, notebooks, pools, jobs, workspace_data>>
runVars == <<pc, subscription_ids, idx, successful_subscriptions, frame, trace, calls, files, console>>
vars == <<wsVars, runVars>>

\* ======================================================================
\* SpecWs: the loop body of write_to_json / write_consolidated_json
\* ======================================================================
RawWorkspaces ==
  {[name |-> "ws1", location |-> "westeurope",
    as_dict |-> [properties |-> [provisioningState |-> "Succeeded"]],
    id |-> <<"/", "subscriptions", "/", "s1", "/", "resourceGroups", "/", "rg1", "/", "ws1">>]}

NoReplies == [notebooks |-> None, pools |-> None, jobs |-> None]

RunOff ==
  /\ pc = "off"
  /\ subscription_ids = <<>>
  /\ idx = 0
  /\ successful_subscriptions = <<>>
  /\ frame = EmptyDict
  /\ trace = <<>>
  /\ calls = <<>>
  /\ files = EmptyDict
  /\ console = EmptyDict

InitWs ==
  /\ ws_pc = "list_notebooks"
  /\ ws \in RawWorkspaces
  /\ replies = NoReplies
  /\ notebooks = <<>>
  /\ pools = <<>>
  /\ jobs = <<>>
  /\ workspace_data = None
  /\ RunOff

FetchNotebooks ==
  /\ ws_pc = "list_notebooks"
  /\ \E reply \in Replies(RawNotebooks, MaxNotebooks) :
       LET r == list_notebooks(reply)
       IN /\ replies' = [replies EXCEPT !.notebooks = reply]
          /\ IF r.raised
             THEN ws_pc' = "raised" /\ notebooks' = notebooks
             ELSE ws_pc' = "list_big_data_pools" /\ notebooks' = r.value
  /\ UNCHANGED <<ws, pools, jobs, workspace_data, runVars>>

FetchPools ==
  /\ ws_pc = "list_big_data_pools"
  /\ \E reply \in Replies(RawPools, MaxPools) :
       LET r == list_big_data_pools(reply)
       IN /\ replies' = [replies EXCEPT !.pools = reply]
          /\ IF r.raised
             THEN ws_pc' = "raised" /\ pools' = pools
             ELSE ws_pc' = "list_spark_job_definitions" /\ pools' = r.value
  /\ UNCHANGED <<ws, notebooks, jobs, workspace_data, runVars>>

\* jobs = list_spark_job_definitions(...), then the rest of the loop body:
\* the two aggregations and the workspace_data record.
FetchJobsAndBuild ==
  /\ ws_pc = "list_spark_job_definitions"
  /\ \E reply \in Replies(RawJobs, MaxJobs) :
       LET r == list_spark_job_definitions(reply)
       IN /\ replies' = [replies EXCEPT !.jobs = reply]
          /\ IF r.raised
             THEN ws_pc' = "raised" /\ jobs' = jobs /\ workspace_data' = workspace_data
             ELSE /\ ws_pc' = "done"
                  /\ jobs' = r.value
                  /\ workspace_data' = WorkspaceData(ws, notebooks, pools, r.value)
  /\ UNCHANGED <<ws, notebooks, pools, runVars>>

NextWs == FetchNotebooks \/ FetchPools \/ FetchJobsAndBuild

SpecWs == InitWs /\ [][NextWs]_vars

\* ======================================================================
\* Properties of the loop body (checked under SpecWs)
\* ======================================================================
\* What the properties say about the fetched lists, stated on the raw
\* records themselves.
HasRef(nb) ==
  /\ "properties" \in DOMAIN nb
  /\ "bigDataPool" \in DOMAIN nb.properties
  /\ "referenceName" \in DOMAIN nb.properties.bigDataPool
RefName(nb) == nb.properties.bigDataPool.referenceName
MatchIdx(nb) == {k \in 1..Len(pools) : pools[k].name = RefName(nb)}
Dangling(nb) == HasRef(nb) /\ MatchIdx(nb) = {}
Matched(nb) == HasRef(nb) /\ MatchIdx(nb) # {}
FirstPoolOf(nb) == pools[CHOOSE k \in MatchIdx(nb) : \A h \in MatchIdx(nb) : k <= h]
Declares(pool, v) == "sparkVersion" \in DOMAIN pool.properties /\ pool.properties.sparkVersion = v
Undeclared(pool) == "sparkVersion" \notin DOMAIN pool.properties

NumNotebooks(P(_)) == Cardinality({k \in 1..Len(notebooks) : P(notebooks[k])})
NoRef(nb) == ~HasRef(nb)
MatchedUndeclared(nb) == Matched(nb) /\ Undeclared(FirstPoolOf(nb))
Count(m, label) == IF label \in DOMAIN m THEN m[label] ELSE 0
Exported == ws_pc = "done"

\* C1 (as claimed): every notebook whose reference names no fetched pool is
\* counted under "Unknown": the "Unknown" count is the number of such
\* notebooks plus the notebooks whose matched pool declares no version.
C1_DanglingCountedUnknown ==
  Exported =>
    Count(workspace_data.notebooks.by_runtime, "Unknown")
      = NumNotebooks(Dangling) + NumNotebooks(MatchedUndeclared)

\* C1 (amended): a notebook whose reference names no fetched pool is counted
\* under "No pool attached", together with the notebooks without a
\* reference; "Unknown" counts exactly the notebooks whose first matching
\* pool declares no sparkVersion.
C1_DanglingCountedNoPoolAttached ==
  Exported =>
    /\ Count(workspace_data.notebooks.by_runtime, "No pool attached")
         = NumNotebooks(Dangling) + NumNotebooks(NoRef)
    /\ Count(workspace_data.notebooks.by_runtime, "Unknown") = NumNotebooks(MatchedUndeclared)
    /\ workspace_data.summary.notebooks_by_runtime = workspace_data.notebooks.by_runtime

C1_Witness ==
  /\ Exported
  /\ NumNotebooks(Dangling) > 0
  /\ NumNotebooks(MatchedUndeclared) > 0
  /\ pools # <<>>

\* The example of the specification: pools "3.3" and "3.4", one notebook
\* on each and one without a reference.
ExamplePools ==
  <<[name |-> "p1", properties |-> [sparkVersion |-> "3.3", nodeCount |-> 3]],
    [name |-> "p2", properties |-> [sparkVersion |-> "3.4", nodeCount |-> 3]]>>
IsExample ==
  /\ Exported
  /\ pools = ExamplePools
  /\ Len(notebooks) = 3
  /\ HasRef(notebooks[1]) /\ RefName(notebooks[1]) = "p1"
  /\ HasRef(notebooks[2]) /\ RefName(notebooks[2]) = "p2"
  /\ "bigDataPool" \notin DOMAIN notebooks[3].properties

MatchedOn(v) == LET P(nb) == Matched(nb) /\ Declares(FirstPoolOf(nb), v) IN NumNotebooks(P)

\* C2 (as claimed): a notebook without a reference is counted under
\* "no pool attached", a notebook whose reference matches under the declared
\* version of the first matching pool, and the example yields
\* {"3.3":1, "3.4":1, "no pool attached":1}.
C2_LabelsAsClaimed ==
  Exported =>
    /\ Count(workspace_data.notebooks.by_runtime, "no pool attached") >= NumNotebooks(NoRef)
    /\ \A v \in SparkVersions : Count(workspace_data.notebooks.by_runtime, v) = MatchedOn(v)
    /\ IsExample =>
         workspace_data.notebooks.by_runtime
           = ("3.3" :> 1) @@ ("3.4" :> 1) @@ ("no pool attached" :> 1)

\* C2 (amended): the sentinel is spelled "No pool attached": a notebook
\* without a reference is counted under it, a notebook whose reference
\* matches is counted under the declared version of the first matching pool
\* in fetched order, and the example yields
\* {"3.3":1, "3.4":1, "No pool attached":1}.
C2_FirstMatchWins ==
  Exported =>
    /\ Count(workspace_data.notebooks.by_runtime, "No pool attached") >= NumNotebooks(NoRef)
    /\ \A v \in SparkVersions : Count(workspace_data.notebooks.by_runtime, v) = MatchedOn(v)
    /\ IsExample =>
         workspace_data.notebooks.by_runtime
           = ("3.3" :> 1) @@ ("3.4" :> 1) @@ ("No pool attached" :> 1)

\* Two pools of one name and different versions, and a notebook on that name.
C2_Witness ==
  /\ Exported
  /\ Len(pools) = 2
  /\ pools[1].name = pools[2].name
  /\ Declares(pools[1], "3.4")
  /\ Declares(pools[2], "3.3")
  /\ NumNotebooks(Matched) > 0
  /\ NumNotebooks(NoRef) > 0

\* C8: in a workspace record the count of each block is the length of its
\* details list, and the summary block repeats those counts.
C8_CountsMatchDetails ==
  Exported =>
    /\ workspace_data.notebooks.count = Len(workspace_data.notebooks.details)
    /\ workspace_data.big_data_pools.count = Len(workspace_data.big_data_pools.details)
    /\ workspace_data.spark_job_definitions.count = Len(workspace_data.spark_job_definitions.details)
    /\ workspace_data.summary.notebooks = workspace_data.notebooks.count
    /\ workspace_data.summary.spark_pools = workspace_data.big_data_pools.count
    /\ workspace_data.summary.spark_job_definitions = workspace_data.spark_job_definitions.count
    /\ Len(workspace_data.notebooks.details) = Len(notebooks)
    /\ Len(workspace_data.big_data_pools.details) = Len(pools)
    /\ Len(workspace_data.spark_job_definitions.details) = Len(jobs)

C8_Witness ==
  /\ Exported
  /\ Len(workspace_data.notebooks.details) = 3
  /\ Len(workspace_data.big_data_pools.details) = 2
  /\ Len(workspace_data.spark_job_definitions.details) = 1

\* A response that is not a success, as a fetcher sees it.
NonSuccess(reply) == reply # None /\ reply # ConnectionError /\ reply.status_code # 200
Success(reply) == reply # None /\ reply # ConnectionError /\ reply.status_code = 200

\* The record the same iteration builds when the pool fetcher is answered by
\* `reply` instead.
WithPoolReply(reply) == WorkspaceData(ws, notebooks, list_big_data_pools(reply).value, jobs)
PoolsFailed == Exported /\ NonSuccess(replies.pools)
EmptyPoolsBlock == [count |-> 0, details |-> <<>>]

\* C9 (as claimed): a non-success response to the pool fetcher changes the
\* big_data_pools block only: whatever successful response it replaces, the
\* notebooks block (with its by_runtime map) and the job block are the same.
C9_PoolFailureTouchesPoolsOnly ==
  PoolsFailed =>
    /\ workspace_data.big_data_pools = EmptyPoolsBlock
    /\ \A reply \in OkReplies(RawPools, MaxPools) :
         /\ WithPoolReply(reply).notebooks = workspace_data.notebooks
         /\ WithPoolReply(reply).spark_job_definitions = workspace_data.spark_job_definitions

\* C9 (amended): a non-success response to the pool fetcher empties the
\* big_data_pools block and leaves the notebooks' count and details and the
\* whole job block as any successful response gives them; the notebooks'
\* by_runtime map is not preserved: it then counts every notebook under
\* "No pool attached".
C9_PoolFailureAlsoRelabelsNotebooks ==
  PoolsFailed =>
    /\ workspace_data.big_data_pools = EmptyPoolsBlock
    /\ workspace_data.summary.spark_pools = 0
    /\ \A reply \in OkReplies(RawPools, MaxPools) :
         /\ WithPoolReply(reply).notebooks.count = workspace_data.notebooks.count
         /\ WithPoolReply(reply).notebooks.details = workspace_data.notebooks.details
         /\ WithPoolReply(reply).spark_job_definitions = workspace_data.spark_job_definitions
    /\ workspace_data.notebooks.by_runtime
         = IF notebooks = <<>> THEN EmptyDict ELSE ("No pool attached" :> Len(notebooks))

C9_Witness ==
  /\ PoolsFailed
  /\ NumNotebooks(HasRef) > 0
  /\ NumNotebooks(NoRef) > 0
  /\ jobs # <<>>

\* C10: a fetcher answered by a non-success response returns the empty list
\* and does not raise (the iteration goes on to the next fetcher); the
\* by_runtime map of the notebooks, respectively of the jobs, is then
\* present in the record and empty.
C10_NonSuccessIsEmptyNotRaised ==
  /\ NonSuccess(replies.notebooks) =>
       /\ notebooks = <<>>
       /\ ws_pc # "list_notebooks"
       /\ ws_pc = "raised" => (replies.pools = ConnectionError \/ replies.jobs = ConnectionError)
       /\ Exported => /\ "by_runtime" \in DOMAIN workspace_data.notebooks
                      /\ workspace_data.notebooks.by_runtime = EmptyDict
                      /\ workspace_data.summary.notebooks_by_runtime = EmptyDict
  /\ NonSuccess(replies.pools) =>
       /\ pools = <<>>
       /\ ws_pc # "list_big_data_pools"
       /\ ws_pc = "raised" => replies.jobs = ConnectionError
  /\ NonSuccess(replies.jobs) =>
       /\ jobs = <<>>
       /\ ws_pc = "done"
       /\ Exported => /\ "by_runtime" \in DOMAIN workspace_data.spark_job_definitions
                      /\ workspace_data.spark_job_definitions.by_runtime = EmptyDict
                      /\ workspace_data.summary.jobs_by_runtime = EmptyDict

C10_Witness ==
  /\ Exported
  /\ NonSuccess(replies.notebooks)
  /\ NonSuccess(replies.jobs)
  /\ Success(replies.pools)
  /\ pools # <<>>

\* ======================================================================
\* Spec: the main run
\* ======================================================================
SubscriptionIds == {"sub-a", "sub-b"}

\* The configurations load_config accepts: a non-empty list of identifiers,
\* the same identifier possibly more than once.
Configs == SeqsUpTo(SubscriptionIds, MaxAccounts) \ {<<>>}

\* What client.workspaces.list() hands back: it raises, or it yields the
\* workspaces of the subscription.
WorkspaceObject(k) == [name |-> <<"ws", k>>]
ListReplies ==
  {ConnectionError} \cup {[workspaces |-> [k \in 1..n |-> WorkspaceObject(k)]] : n \in 0..MaxWorkspaces}

\* return list(client.workspaces.list())
list_workspaces(reply) == IF reply = ConnectionError THEN Raised ELSE Return(reply.workspaces)

\* The replies the child fetchers get during the run. The lists they carry
\* are left empty: an export keeps a workspace record as the workspace's
\* name, and what the record holds is the subject of SpecWs.
RunReplies == {[status_code |-> 200, json |-> [value |-> <<>>]], FailedReply, ConnectionError}

\* notebooks = list_notebooks(...); pools = list_big_data_pools(...);
\* jobs = list_spark_job_definitions(...): the first that raises ends it.
FetchChildren(rn, rp, rj) ==
  LET n == list_notebooks(rn)
      p == list_big_data_pools(rp)
      j == list_spark_job_definitions(rj)
  IN IF n.raised \/ p.raised \/ j.raised THEN Raised
     ELSE Return([notebooks |-> n.value, pools |-> p.value, jobs |-> j.value])

\* Whether requests.get raised in one of the three calls.
TransportError(rn, rp, rj) == rn = ConnectionError \/ rp = ConnectionError \/ rj = ConnectionError

\* Whether one of the fetchers that were called was answered by a non-success.
SawNonSuccess(rn, rp, rj) ==
  \/ NonSuccess(rn)
  \/ rn # ConnectionError /\ NonSuccess(rp)
  \/ rn # ConnectionError /\ rp # ConnectionError /\ NonSuccess(rj)

SummaryFile == "synapse_metadata_summary.json"
ConsolidatedFile == "synapse_workspaces_consolidated_TIMESTAMP.json"
Now == "scan-time"

WsOff ==
  /\ ws_pc = "off"
  /\ ws = None
  /\ replies = NoReplies
  /\ notebooks = <<>>
  /\ pools = <<>>
  /\ jobs = <<>>
  /\ workspace_data = None

Init ==
  /\ pc = "main_loop"
  /\ subscription_ids \in Configs
  /\ idx = 1
  /\ successful_subscriptions = <<>>
  /\ frame = EmptyDict
  /\ trace = <<>>
  /\ calls = <<>>
  /\ files = EmptyDict
  /\ console = EmptyDict
  /\ WsOff

\* ------------------------------------------------- process_subscription
\* `if not workspaces`
NoWorkspaces(workspaces) == workspaces = <<>>

\* return from process_subscription into the loop of __main__:
\*   success = process_subscription(...); if success: append
ReturnToMainStoppingOnFailure(success, t) ==
  /\ successful_subscriptions' =
       IF success THEN Append(successful_subscriptions, subscription_ids[idx])
       ELSE successful_subscriptions
  /\ trace' = Append(trace, t @@ [success |-> success, subscription_id |-> subscription_ids[idx]])
  /\ idx' = IF success THEN idx + 1 ELSE Len(subscription_ids) + 1
  /\ frame' = EmptyDict
  /\ pc' = "main_loop"

ReturnToMain(success, t) ==
  /\ successful_subscriptions' =
       IF success THEN Append(successful_subscriptions, subscription_ids[idx])
       ELSE successful_subscriptions
  /\ trace' = Append(trace, t @@ [success |-> success, subscription_id |-> subscription_ids[idx]])
  /\ idx' = idx + 1
  /\ frame' = EmptyDict
  /\ pc' = "main_loop"

NoTrace == [listing |-> "ok", child_raised |-> FALSE, summary_raised |-> FALSE, degraded |-> FALSE]

PS_ListWorkspaces ==
  /\ pc = "main_loop"
  /\ idx <= Len(subscription_ids)
  /\ \E reply \in ListReplies :
       LET r == list_workspaces(reply)
           t == [NoTrace EXCEPT !.listing = IF reply = ConnectionError THEN "raised"
                                            ELSE IF reply.workspaces = <<>> THEN "empty"
                                            ELSE "ok"]
       IN IF r.raised
          THEN ReturnToMain(FALSE, t)
          ELSE IF NoWorkspaces(r.value)
          THEN ReturnToMain(FALSE, t)
          ELSE /\ frame' = [fn |-> "process_subscription", workspaces |-> r.value, k |-> 1, t |-> t]
               /\ pc' = IF r.value = <<>> THEN "ps_summarize" ELSE "ps_workspace"
               /\ UNCHANGED <<successful_subscriptions, trace, idx>>
  /\ UNCHANGED <<subscription_ids, calls, files, console, wsVars>>

PS_Workspace ==
  /\ pc = "ps_workspace"
  /\ \E rn \in RunReplies, rp \in RunReplies, rj \in RunReplies :
       LET r == FetchChildren(rn, rp, rj)
           t == [frame.t EXCEPT !.degraded = @ \/ SawNonSuccess(rn, rp, rj),
                                !.child_raised = TransportError(rn, rp, rj)]
       IN IF r.raised
          THEN ReturnToMain(FALSE, t)
          ELSE /\ frame' = [frame EXCEPT !.k = @ + 1, !.t = t]
               /\ pc' = IF frame.k = Len(frame.workspaces) THEN "ps_summarize" ELSE "ps_workspace"
               /\ UNCHANGED <<successful_subscriptions, trace, idx>>
  /\ UNCHANGED <<subscription_ids, calls, files, console, wsVars>>

\* summarize_subscription: it lists the workspaces again ...
PS_SummarizeList ==
  /\ pc = "ps_summarize"
  /\ \E reply \in ListReplies :
       LET r == list_workspaces(reply)
           t == [frame.t EXCEPT !.summary_raised = (reply = ConnectionError)]
       IN IF r.raised
          THEN ReturnToMain(FALSE, t)
          ELSE IF r.value = <<>>
          THEN ReturnToMain(TRUE, t)
          ELSE /\ frame' = [frame EXCEPT !.workspaces = r.value, !.k = 1]
               /\ pc' = "ps_summarize_workspace"
               /\ UNCHANGED <<successful_subscriptions, trace, idx>>
  /\ UNCHANGED <<subscription_ids, calls, files, console, wsVars>>

\* ... and fetches and counts the children of each.
PS_SummarizeWorkspace ==
  /\ pc = "ps_summarize_workspace"
  /\ \E rn \in RunReplies, rp \in RunReplies, rj \in RunReplies :
       LET r == FetchChildren(rn, rp, rj)
           t == [frame.t EXCEPT !.degraded = @ \/ SawNonSuccess(rn, rp, rj),
                                !.summary_raised = TransportError(rn, rp, rj)]
       IN IF r.raised
          THEN ReturnToMain(FALSE, t)
          ELSE IF frame.k = Len(frame.workspaces)
          THEN ReturnToMain(TRUE, t)
          ELSE /\ frame' = [frame EXCEPT !.k = @ + 1, !.t = t]
               /\ pc' = "ps_summarize_workspace"
               /\ UNCHANGED <<successful_subscriptions, trace, idx>>
  /\ UNCHANGED <<subscription_ids, calls, files, console, wsVars>>

\* ------------------------------------------------------------- the exports
\* if successful_subscriptions: if len(...) == 1: ... else: ... else: ...
ExportShapeAlwaysConsolidated(successful) ==
  IF successful = <<>> THEN "none" ELSE "multiple"

ExportShape(successful) ==
  IF successful = <<>> THEN "none"
  ELSE IF Len(successful) = 1 THEN "single"
  ELSE "multiple"

WriteFrame(e, individual_files) ==
  [fn |-> "write_to_json", e |-> e, individual_files |-> individual_files,
   workspaces |-> <<>>, k |-> 0, json_data |-> None]

MainExports ==
  /\ pc = "main_loop"
  /\ idx > Len(subscription_ids)
  /\ IF ExportShape(successful_subscriptions) = "none"
     THEN /\ console' = ("no_json_files_created" :> TRUE) @@ console
          /\ pc' = "final"
          /\ frame' = frame
     ELSE /\ frame' = WriteFrame(1, <<>>)
          /\ pc' = "wj_list"
          /\ console' = console
  /\ UNCHANGED <<subscription_ids, idx, successful_subscriptions, trace, calls, files, wsVars>>

\* write_to_json(subscription_id, credential): filename is not given
WJ_ListWorkspaces ==
  /\ pc = "wj_list"
  /\ LET subscription_id == successful_subscriptions[frame.e]
     IN /\ calls' = Append(calls, [fn |-> "write_to_json", arg |-> subscription_id])
        /\ \E reply \in ListReplies :
             LET r == list_workspaces(reply)
             IN IF r.raised
                THEN pc' = "crashed" /\ frame' = frame
                ELSE /\ frame' = [frame EXCEPT
                                    !.workspaces = r.value,
                                    !.k = 1,
                                    !.json_data = [subscription_id |-> subscription_id,
                                                   scan_timestamp |-> Now,
                                                   total_workspaces |-> Len(r.value),
                                                   workspaces |-> <<>>]]
                     /\ pc' = IF r.value = <<>> THEN "wj_write" ELSE "wj_workspace"
  /\ UNCHANGED <<subscription_ids, idx, successful_subscriptions, trace, files, console, wsVars>>

WJ_Workspace ==
  /\ pc = "wj_workspace"
  /\ \E rn \in RunReplies, rp \in RunReplies, rj \in RunReplies :
       LET r == FetchChildren(rn, rp, rj)
       IN IF r.raised
          THEN pc' = "crashed" /\ frame' = frame
          ELSE /\ frame' = [frame EXCEPT
                              !.json_data.workspaces = Append(@, frame.workspaces[frame.k].name),
                              !.k = @ + 1]
               /\ pc' = IF frame.k = Len(frame.workspaces) THEN "wj_write" ELSE "wj_workspace"
  /\ UNCHANGED <<subscription_ids, idx, successful_subscriptions, trace, calls, files, console, wsVars>>

\* filename = f"synapse_metadata_summary.json"; json.dump(json_data, f)
WriteToJsonFilename(subscription_id) == SummaryFile

ConsolidatedFrame(individual_files) ==
  [fn |-> "write_consolidated_json", individual_files |-> individual_files,
   j |-> 1, workspaces |-> <<>>, k |-> 0,
   consolidated_data |-> [scan_timestamp |-> Now,
                          total_subscriptions |-> Len(successful_subscriptions),
                          subscriptions |-> <<>>],
   total_workspaces_across_subs |-> 0,
   subscription_data |-> None]

WJ_Write ==
  /\ pc = "wj_write"
  /\ LET filename == WriteToJsonFilename(frame.json_data.subscription_id)
         individual_files == Append(frame.individual_files, filename)
     IN /\ files' = (filename :> frame.json_data) @@ files
        /\ IF ExportShape(successful_subscriptions) = "single"
           THEN /\ pc' = "final"
                /\ frame' = EmptyDict
           ELSE IF frame.e < Len(successful_subscriptions)
           THEN /\ pc' = "wj_list"
                /\ frame' = WriteFrame(frame.e + 1, individual_files)
           ELSE /\ pc' = "wc_begin"
                /\ frame' = ConsolidatedFrame(individual_files)
  /\ UNCHANGED <<subscription_ids, idx, successful_subscriptions, trace, calls, console, wsVars>>

\* write_consolidated_json(successful_subscriptions, credential)
WC_Begin ==
  /\ pc = "wc_begin"
  /\ calls' = Append(calls, [fn |-> "write_consolidated_json", arg |-> successful_subscriptions,
                             outcomes |-> <<>>])
  /\ pc' = "wc_list"
  /\ UNCHANGED <<subscription_ids, idx, successful_subscriptions, frame, trace, files, console, wsVars>>

\* except Exception as e: consolidated_data["subscriptions"].append({...})
SkipFailedSubscription(consolidated_data, subscription_id, e) == consolidated_data

AppendErrorRecord(consolidated_data, subscription_id, e) ==
  [consolidated_data EXCEPT !.subscriptions =
     Append(@, [subscription_id |-> subscription_id,
                error |-> e,
                total_workspaces |-> 0,
                workspaces |-> <<>>])]

\* what the call did for the subscription it has just finished with
Outcome(raised, listed) ==
  calls' = [calls EXCEPT ![Len(calls)].outcomes = Append(@, [raised |-> raised, listed |-> listed])]

NextSubscription(f) ==
  /\ frame' = [f EXCEPT !.j = @ + 1, !.workspaces = <<>>, !.k = 0, !.subscription_data = None]
  /\ pc' = IF frame.j = Len(successful_subscriptions) THEN "wc_write" ELSE "wc_list"

WC_ListWorkspaces ==
  /\ pc = "wc_list"
  /\ LET subscription_id == successful_subscriptions[frame.j]
     IN \E reply \in ListReplies :
          LET r == list_workspaces(reply)
              subscription_data == [subscription_id |-> subscription_id,
                                    total_workspaces |-> Len(r.value),
                                    workspaces |-> <<>>]
              counted == [frame EXCEPT !.total_workspaces_across_subs = @ + Len(r.value)]
          IN IF r.raised
             THEN /\ NextSubscription([frame EXCEPT !.consolidated_data =
                         AppendErrorRecord(@, subscription_id, "ConnectionError")])
                  /\ Outcome(TRUE, 0)
             ELSE IF r.value = <<>>
             THEN /\ NextSubscription([counted EXCEPT !.consolidated_data.subscriptions =
                                         Append(@, subscription_data)])
                  /\ Outcome(FALSE, 0)
             ELSE /\ frame' = [counted EXCEPT !.workspaces = r.value, !.k = 1,
                                              !.subscription_data = subscription_data]
                  /\ pc' = "wc_workspace"
                  /\ calls' = calls
  /\ UNCHANGED <<subscription_ids, idx, successful_subscriptions, trace, files, console, wsVars>>

WC_Workspace ==
  /\ pc = "wc_workspace"
  /\ LET subscription_id == successful_subscriptions[frame.j]
     IN \E rn \in RunReplies, rp \in RunReplies, rj \in RunReplies :
          LET r == FetchChildren(rn, rp, rj)
              appended == [frame EXCEPT !.subscription_data.workspaces =
                                          Append(@, frame.workspaces[frame.k].name)]
          IN IF r.raised
             THEN /\ NextSubscription([frame EXCEPT !.consolidated_data =
                         AppendErrorRecord(@, subscription_id, "ConnectionError")])
                  /\ Outcome(TRUE, Len(frame.workspaces))
             ELSE IF frame.k = Len(frame.workspaces)
             THEN /\ NextSubscription([appended EXCEPT !.consolidated_data.subscriptions =
                                         Append(@, appended.subscription_data)])
                  /\ Outcome(FALSE, Len(frame.workspaces))
             ELSE /\ frame' = [appended EXCEPT !.k = @ + 1]
                  /\ pc' = "wc_workspace"
                  /\ calls' = calls
  /\ UNCHANGED <<subscription_ids, idx, successful_subscriptions, trace, files, console, wsVars>>

WC_Write ==
  /\ pc = "wc_write"
  /\ files' = (ConsolidatedFile :>
                 (("total_workspaces_across_all_subscriptions" :> frame.total_workspaces_across_subs)
                    @@ frame.consolidated_data)) @@ files
  /\ console' = [individual_files |-> Len(frame.individual_files),
                 consolidated_file |-> 1,
                 total_files_created |-> Len(frame.individual_files) + 1] @@ console
  /\ pc' = "final"
  /\ frame' = EmptyDict
  /\ UNCHANGED <<subscription_ids, idx, successful_subscriptions, trace, calls, wsVars>>

\* FINAL SUMMARY
FinalSummary ==
  /\ pc = "final"
  /\ LET failed == Len(subscription_ids) - Len(successful_subscriptions)
         recorded == {successful_subscriptions[k] : k \in 1..Len(successful_subscriptions)}
         NotRecorded(sub) == sub \notin recorded
     IN console' = [configured |-> Len(subscription_ids),
                    succeeded |-> Len(successful_subscriptions),
                    failed |-> failed] @@
                   (IF failed > 0
                    THEN ("failed_subscriptions" :> SelectSeq(subscription_ids, NotRecorded))
                    ELSE EmptyDict) @@ console
  /\ pc' = "done"
  /\ UNCHANGED <<subscription_ids, idx, successful_subscriptions, frame, trace, calls, files, wsVars>>

Next ==
  \/ PS_ListWorkspaces
  \/ PS_Workspace
  \/ PS_SummarizeList
  \/ PS_SummarizeWorkspace
  \/ MainExports
  \/ WJ_ListWorkspaces
  \/ WJ_Workspace
  \/ WJ_Write
  \/ WC_Begin
  \/ WC_ListWorkspaces
  \/ WC_Workspace
  \/ WC_Write
  \/ FinalSummary

Spec == Init /\ [][Next]_vars

\* ======================================================================
\* Properties of the main run (checked under Spec)
\* ======================================================================
S == Len(successful_subscriptions)
ConsolidatedWritten == ConsolidatedFile \in DOMAIN files
Consolidated == files[ConsolidatedFile]
IsErrorRecord(entry) == "error" \in DOMAIN entry

\* the consolidated call, once made, is the last one
ConsolidatedCall == calls[Len(calls)]

RECURSIVE SumOfSuccessful(_)
SumOfSuccessful(entries) ==
  IF entries = <<>> THEN 0
  ELSE (IF IsErrorRecord(Head(entries)) THEN 0 ELSE Head(entries).total_workspaces)
       + SumOfSuccessful(Tail(entries))

\* C3: in the consolidated file the grand total is the sum of the
\* total_workspaces of the entries without an error field; a subscription
\* that ends up as an error record adds nothing to it.
C3_GrandTotalCountsSuccessfulOnly ==
  ConsolidatedWritten =>
    Consolidated.total_workspaces_across_all_subscriptions
      = SumOfSuccessful(Consolidated.subscriptions)

\* C4: the consolidated file holds one entry per subscription passed, in the
\* order passed: the error record for a subscription whose processing
\* raised, the full record (every listed workspace) for one whose processing
\* did not; while the file is built, one entry per subscription done.
C4_OneEntryPerSubscription ==
  /\ pc \in {"wc_list", "wc_workspace", "wc_write"} =>
       /\ Len(frame.consolidated_data.subscriptions) = frame.j - 1
       /\ Len(ConsolidatedCall.outcomes) = frame.j - 1
  /\ ConsolidatedWritten =>
       /\ Len(Consolidated.subscriptions) = Len(ConsolidatedCall.arg)
       /\ Consolidated.total_subscriptions = Len(ConsolidatedCall.arg)
       /\ \A k \in 1..Len(ConsolidatedCall.arg) :
            LET entry == Consolidated.subscriptions[k]
                did == ConsolidatedCall.outcomes[k]
            IN /\ entry.subscription_id = ConsolidatedCall.arg[k]
               /\ did.raised =>
                    /\ DOMAIN entry = {"subscription_id", "error", "total_workspaces", "workspaces"}
                    /\ entry.total_workspaces = 0
                    /\ entry.workspaces = <<>>
               /\ ~did.raised =>
                    /\ DOMAIN entry = {"subscription_id", "total_workspaces", "workspaces"}
                    /\ entry.total_workspaces = did.listed
                    /\ Len(entry.workspaces) = did.listed

C4_Witness ==
  /\ ConsolidatedWritten
  /\ Len(Consolidated.subscriptions) >= 2
  /\ IsErrorRecord(Consolidated.subscriptions[1])
  /\ ~IsErrorRecord(Consolidated.subscriptions[2])
  /\ Consolidated.subscriptions[2].workspaces # <<>>
  /\ ConsolidatedCall.outcomes[1].listed > 0

\* the subscriptions processed so far whose process_subscription returned True
RECURSIVE ReturnedTrue(_)
ReturnedTrue(k) ==
  IF k = 0 THEN <<>>
  ELSE IF trace[k].success THEN Append(ReturnedTrue(k - 1), subscription_ids[k])
  ELSE ReturnedTrue(k - 1)

\* C5 (as claimed): a subscription is recorded in successful_subscriptions
\* exactly when its top-level workspace listing did not raise.
C5_SuccessIffListingDidNotRaise ==
  /\ successful_subscriptions = ReturnedTrue(Len(trace))
  /\ \A k \in 1..Len(trace) : trace[k].success <=> trace[k].listing # "raised"

\* C5 (amended): a subscription is recorded in successful_subscriptions
\* exactly when its top-level listing did not raise and returned at least
\* one workspace, and no later call of its processing (a child fetcher, the
\* listing and the fetchers of the summary) raised; a non-success response
\* to a child fetcher has no part in it.
C5_SuccessIffNothingRaisedAndSomeWorkspace ==
  /\ successful_subscriptions = ReturnedTrue(Len(trace))
  /\ Len(trace) = idx - 1
  /\ \A k \in 1..Len(trace) :
       trace[k].success <=>
         /\ trace[k].listing = "ok"
         /\ ~trace[k].child_raised
         /\ ~trace[k].summary_raised

C5_Witness ==
  /\ Len(trace) = 2
  /\ trace[1].degraded /\ trace[1].success
  /\ trace[2].listing = "empty" /\ ~trace[2].success
  /\ successful_subscriptions = <<subscription_ids[1]>>

\* C6: the exports are made only after every subscription was processed, and
\* which are made follows from the number S of successful ones: none (and the
\* failure is reported) for S = 0; one write_to_json and no
\* write_consolidated_json for S = 1; for S > 1 one write_to_json per
\* successful subscription, in order, then one write_consolidated_json over
\* exactly the successful subscriptions.
C6_ExportShapeFollowsS ==
  /\ calls # <<>> => idx = Len(subscription_ids) + 1
  /\ Len(calls) <= (IF S > 1 THEN S + 1 ELSE S)
  /\ \A k \in 1..Len(calls) :
       IF k <= S
       THEN calls[k].fn = "write_to_json" /\ calls[k].arg = successful_subscriptions[k]
       ELSE calls[k].fn = "write_consolidated_json" /\ calls[k].arg = successful_subscriptions
  /\ pc \in {"final", "done"} =>
       /\ Len(calls) = (IF S > 1 THEN S + 1 ELSE S)
       /\ ("no_json_files_created" \in DOMAIN console) <=> (S = 0)

C6_Witness ==
  /\ pc = "done"
  /\ S > 1
  /\ Len(calls) = S + 1
  /\ calls[S + 1].fn = "write_consolidated_json"

\* C7: with S > 1 successful subscriptions the run ends with S + 1 files, as
\* its export summary prints: the individual export of every successful
\* subscription is there beside the consolidated one.
C7_EveryIndividualExportKept ==
  (pc = "done" /\ S > 1) =>
    /\ Cardinality(DOMAIN files) = S + 1
    /\ console.total_files_created = Cardinality(DOMAIN files)
    /\ \A k \in 1..S :
         \E f \in DOMAIN files \ {ConsolidatedFile} :
           files[f].subscription_id = successful_subscriptions[k]

InMainLoop == pc \in {"main_loop", "ps_workspace", "ps_summarize", "ps_summarize_workspace"}
LoopOver == ~InMainLoop \/ idx > Len(subscription_ids)

\* every iteration so far handled the identifier at its own position of the
\* configuration, and once the loop is over each position was handled once
ProcessedOncePerOccurrenceInOrder ==
  /\ Len(trace) = idx - 1
  /\ idx <= Len(subscription_ids) + 1
  /\ \A k \in 1..Len(trace) : trace[k].subscription_id = subscription_ids[k]
  /\ ~InMainLoop => idx = Len(subscription_ids) + 1
  /\ LoopOver => Len(trace) = Len(subscription_ids)

\* C11 (as claimed): every configured identifier is processed once per
\* occurrence, in configuration order, whatever the earlier ones did, and the
\* run always reaches the final tally: it stops nowhere else.
C11_AlwaysReachesFinalTally ==
  /\ ProcessedOncePerOccurrenceInOrder
  /\ pc = "done" \/ ENABLED Next

\* C11 (amended): every configured identifier is processed once per
\* occurrence, in configuration order, whatever the earlier ones did; the run
\* then reaches the final tally unless a call made by write_to_json raises
\* while the exports are generated: that exception is not caught and ends
\* the run before the tally.
C11_LoopCompletesTallyUnlessExportRaises ==
  /\ ProcessedOncePerOccurrenceInOrder
  /\ \/ pc = "done"
     \/ ENABLED Next
     \/ /\ pc = "crashed"
        /\ "fn" \in DOMAIN frame /\ frame.fn = "write_to_json"
        /\ calls # <<>> /\ calls[Len(calls)].fn = "write_to_json"
        /\ "configured" \notin DOMAIN console
  /\ pc = "done" => /\ console.configured = Len(subscription_ids)
                    /\ console.succeeded = Len(successful_subscriptions)

C11_Witness ==
  /\ pc = "done"
  /\ Len(trace) = 2
  /\ trace[1].listing = "raised"
  /\ trace[2].success
  /\ "configured" \in DOMAIN console

\* the configured identifiers whose own processing returned False
NotRecordedSuccessful ==
  {subscription_ids[k] : k \in {j \in 1..Len(trace) : ~trace[j].success}}

\* C12: at the terminal state the printed failed count is configured minus
\* succeeded, and when it is positive the printed list holds exactly the
\* configured accounts not recorded successful, with as many entries as the
\* failed count, also when one identifier is configured more than once.
C12_FailedListMatchesFailedCount ==
  pc = "done" =>
    /\ console.failed = console.configured - console.succeeded
    /\ console.failed > 0 =>
         /\ "failed_subscriptions" \in DOMAIN console
         /\ Len(console.failed_subscriptions) = console.failed
         /\ {console.failed_subscriptions[k] :
               k \in 1..Len(console.failed_subscriptions)} = NotRecordedSuccessful

\* ------------------------------------------------------------ load_config
\* A JSON value as json.load returns it, tagged with its Python type.
JsonNull == [type |-> "null"]
JsonInt == [type |-> "int"]
JsonStr(s) == [type |-> "str", str |-> s]
JsonList(items) == [type |-> "list", items |-> items]
JsonDict(entries) == [type |-> "dict", entries |-> entries]

\* A file on disk: text json.load rejects, or text that parses to a value.
Unparseable == [parses |-> FALSE]
Document(v) == [parses |-> TRUE, value |-> v]

ConfigFile == "config.json"
PlaceholderId == "<your-subscription-id-here>"
sample_config == JsonDict([subscription_ids |-> JsonList(<<PlaceholderId>>)])

ValuesUnderKey ==
  {JsonNull, JsonInt, JsonStr("sub-a"), JsonDict(EmptyDict)}
    \cup {JsonList(c) : c \in Configs \cup {<<>>}}

ConfigDocuments ==
  {Unparseable}
    \cup {Document(v) : v \in {JsonNull, JsonInt, JsonStr("subscription_ids"), JsonStr("other"),
                               JsonList(<<>>), JsonList(<<"subscription_ids">>),
                               JsonDict(EmptyDict),
                               JsonDict([other |-> JsonList(<<"sub-a">>)])}}
    \cup {Document(JsonDict([subscription_ids |-> v])) : v \in ValuesUnderKey}

\* `key in config`: a TypeError for None and int, element membership for a
\* list, substring for a str (the strings drawn here are atomic, so a
\* string's only substring is itself), key membership for a dict
Contains(key, config) ==
  IF config.type \in {"null", "int"} THEN Raised
  ELSE IF config.type = "list"
  THEN Return(\E k \in 1..Len(config.items) : config.items[k] = key)
  ELSE IF config.type = "str" THEN Return(config.str = key)
  ELSE Return(key \in DOMAIN config.entries)

\* `config[key]` with a str key: only a dict can be subscripted by it
Subscript(config, key) ==
  IF config.type = "dict" /\ key \in DOMAIN config.entries
  THEN Return(config.entries[key])
  ELSE Raised

\* the validation of lines 28-38 without the `len(...) == 0` test
ValidateAcceptingEmptyList(config) ==
  LET has == Contains("subscription_ids", config)
  IN IF has.raised THEN Raised
     ELSE IF ~has.value THEN Raised
     ELSE LET ids == Subscript(config, "subscription_ids")
          IN IF ids.raised THEN Raised
             ELSE IF ids.value.type # "list" THEN Raised
             ELSE Return(config)

\* lines 28-38: every `raise ValueError` and every TypeError ends in `raise`
Validate(config) ==
  LET has == Contains("subscription_ids", config)
  IN IF has.raised THEN Raised
     ELSE IF ~has.value THEN Raised
     ELSE LET ids == Subscript(config, "subscription_ids")
          IN IF ids.raised THEN Raised
             ELSE IF ids.value.type # "list" THEN Raised
             ELSE IF Len(ids.value.items) = 0 THEN Raised
             ELSE Return(config)

\* load_config(config_file) on the file system fs: what it returns or that it
\* raises, and the file system it leaves
load_config(fs, config_file) ==
  IF config_file \notin DOMAIN fs
  THEN [outcome |-> Return(sample_config),
        files |-> (config_file :> Document(sample_config)) @@ fs]
  ELSE IF ~fs[config_file].parses
  THEN [outcome |-> Raised, files |-> fs]
  ELSE [outcome |-> Validate(fs[config_file].value), files |-> fs]

\* len(sys.argv): the script name and the arguments given
ArgCounts == {1, 2, 3}

InitConfig ==
  /\ pc = "start"
  /\ \E n \in ArgCounts : frame = [fn |-> "__main__", argc |-> n]
  /\ files \in {EmptyDict} \cup {(ConfigFile :> d) : d \in ConfigDocuments}
  /\ subscription_ids = <<>>
  /\ idx = 1
  /\ successful_subscriptions = <<>>
  /\ trace = <<>>
  /\ calls = <<>>
  /\ console = EmptyDict
  /\ WsOff

\* `if len(sys.argv) != 2: ... exit(1)`
Main_CheckArgs ==
  /\ pc = "start"
  /\ pc' = IF frame.argc # 2 THEN "exit_1" ELSE "load_config"
  /\ UNCHANGED <<subscription_ids, idx, successful_subscriptions, frame, trace, calls,
                 files, console, wsVars>>

\* `config = load_config(config_file); subscription_ids = config[...]`, any
\* exception ending in exit(1)
Main_LoadConfig ==
  /\ pc = "load_config"
  /\ LET r == load_config(files, ConfigFile)
     IN /\ files' = r.files
        /\ IF r.outcome.raised
           THEN /\ pc' = "exit_1"
                /\ UNCHANGED <<subscription_ids, frame>>
           ELSE LET ids == Subscript(r.outcome.value, "subscription_ids")
                IN IF ids.raised
                   THEN /\ pc' = "exit_1"
                        /\ UNCHANGED <<subscription_ids, frame>>
                   ELSE /\ subscription_ids' = ids.value.items
                        /\ frame' = EmptyDict
                        /\ pc' = "main_loop"
  /\ UNCHANGED <<idx, successful_subscriptions, trace, calls, console, wsVars>>

NextConfig ==
  \/ Main_CheckArgs
  \/ Main_LoadConfig
  \/ Next

SpecConfig == InitConfig /\ [][NextConfig]_vars

\* ---- the shapes of an existing, well-formed configuration file
WellFormed == ConfigFile \in DOMAIN files /\ files[ConfigFile].parses
Config == files[ConfigFile].value
HasKey == Config.type = "dict" /\ "subscription_ids" \in DOMAIN Config.entries
LacksKey == WellFormed /\ ~HasKey
NonListUnderKey == WellFormed /\ HasKey /\ Config.entries.subscription_ids.type # "list"
EmptyListUnderKey ==
  /\ WellFormed /\ HasKey
  /\ Config.entries.subscription_ids.type = "list"
  /\ Config.entries.subscription_ids.items = <<>>
BeforeAnyFetcher ==
  /\ pc \in {"start", "load_config", "exit_1"}
  /\ subscription_ids = <<>>
  /\ trace = <<>>
  /\ calls = <<>>
  /\ DOMAIN files = {ConfigFile}

\* C13: an existing well-formed configuration file that lacks the
\* subscription_ids key, holds a non-list under it or holds an empty list
\* makes load_config raise; the run ends in exit(1) with no fetcher called
\* and never enters the loop or the exports as a run over zero accounts.
C13_BadShapeExitsBeforeAnyFetcher ==
  (LacksKey \/ NonListUnderKey \/ EmptyListUnderKey) =>
    /\ load_config(files, ConfigFile).outcome.raised
    /\ BeforeAnyFetcher
    /\ pc = "exit_1" \/ ENABLED NextConfig

C13_Witness ==
  /\ EmptyListUnderKey
  /\ frame.argc = 2
  /\ pc = "exit_1"

\* ------------------------------------------------- the detail extractors
\* An optional nested block of a raw record: the key is absent, present
\* with an empty object, or present with fields.
Presence == {"absent", "empty", "populated"}
Block(key, presence, populated) ==
  IF presence = "absent" THEN EmptyDict
  ELSE key :> (IF presence = "empty" THEN EmptyDict ELSE populated)

PoolReference == [referenceName |-> "p1", type |-> "BigDataPoolReference"]

DetailNotebooks ==
  {[name |-> "nb1",
    properties |-> Block("bigDataPool", b, PoolReference)
                     @@ Block("sessionProperties", s, [driverMemory |-> "4g"])] :
     b \in Presence, s \in Presence}

DetailPools ==
  {[name |-> "p1",
    properties |-> Block("autoScale", a, [enabled |-> TRUE])
                     @@ Block("autoPause", p, [enabled |-> TRUE])
                     @@ Block("dynamicExecutorAllocation", d, [enabled |-> FALSE])
                     @@ Block("libraryRequirements", l, [filename |-> "requirements.txt"])] :
     a \in Presence, p \in Presence, d \in Presence, l \in Presence}

DetailJobs ==
  {[name |-> "job1",
    properties |-> Block("targetBigDataPool", t, PoolReference)
                     @@ Block("folder", f, [name |-> "folder1"])
                     @@ Block("jobProperties", j, [file |-> "main.py"])] :
     t \in Presence, f \in Presence, j \in Presence}

InitExtract ==
  /\ \/ ws_pc = "extract_notebook_details" /\ ws \in DetailNotebooks
     \/ ws_pc = "extract_big_data_pool_details" /\ ws \in DetailPools
     \/ ws_pc = "extract_spark_job_definition_details" /\ ws \in DetailJobs
  /\ replies = NoReplies
  /\ notebooks = <<>>
  /\ pools = <<>>
  /\ jobs = <<>>
  /\ workspace_data = None
  /\ RunOff

ExtractNotebook ==
  /\ ws_pc = "extract_notebook_details"
  /\ workspace_data = None
  /\ workspace_data' = extract_notebook_details(ws)
  /\ UNCHANGED <<ws_pc, ws, replies, notebooks, pools, jobs, runVars>>

ExtractPool ==
  /\ ws_pc = "extract_big_data_pool_details"
  /\ workspace_data = None
  /\ workspace_data' = extract_big_data_pool_details(ws)
  /\ UNCHANGED <<ws_pc, ws, replies, notebooks, pools, jobs, runVars>>

ExtractJob ==
  /\ ws_pc = "extract_spark_job_definition_details"
  /\ workspace_data = None
  /\ workspace_data' = extract_spark_job_definition_details(ws)
  /\ UNCHANGED <<ws_pc, ws, replies, notebooks, pools, jobs, runVars>>

NextExtract ==
  \/ ExtractNotebook
  \/ ExtractPool
  \/ ExtractJob

SpecExtract == InitExtract /\ [][NextExtract]_vars

\* input key and output field of each block projected to a structure
StructureBlocks ==
  IF ws_pc = "extract_notebook_details"
  THEN {<<"bigDataPool", "big_data_pool">>, <<"sessionProperties", "session_properties">>}
  ELSE IF ws_pc = "extract_big_data_pool_details"
  THEN {<<"autoScale", "auto_scale">>, <<"autoPause", "auto_pause">>,
        <<"dynamicExecutorAllocation", "dynamic_executor_allocation">>,
        <<"libraryRequirements", "library_requirements">>}
  ELSE {<<"targetBigDataPool", "target_big_data_pool">>, <<"jobProperties", "job_properties">>}

Projected == workspace_data # None
Present(key) == key \in DOMAIN ws.properties
PresentEmpty(key) == Present(key) /\ ws.properties[key] = EmptyDict

\* C14: for every optional nested block the projected field is None exactly
\* when the block is absent from the input record and is a populated
\* structure whenever the block is present, also when it is present and
\* empty; an absent block never projects to an empty structure.
C14_NoneExactlyWhenAbsent ==
  Projected =>
    /\ \A b \in StructureBlocks :
         /\ workspace_data[b[2]] = None <=> ~Present(b[1])
         /\ DOMAIN workspace_data[b[2]] # {}
    /\ ws_pc = "extract_spark_job_definition_details" =>
         /\ ~Present("folder") => workspace_data.folder = None
         /\ PresentEmpty("folder") => workspace_data.folder # None

\* ------------------------------------------ parse_resource_group_from_id
MaxIdLen == 5

\* the symbols an identifier is drawn from: the separator, the marker, the
\* marker in another letter case, and a run of other characters
IdSymbols == {"/", "resourceGroups", "resourcegroups", "rg1"}
ResourceIds == SeqsUpTo(IdSymbols, MaxIdLen)

InitParse ==
  /\ ws_pc = "parse_resource_group_from_id"
  /\ ws \in ResourceIds
  /\ replies = NoReplies
  /\ notebooks = <<>>
  /\ pools = <<>>
  /\ jobs = <<>>
  /\ workspace_data = None
  /\ RunOff

ParseResourceGroup ==
  /\ ws_pc = "parse_resource_group_from_id"
  /\ workspace_data' = Return(parse_resource_group_from_id(ws))
  /\ ws_pc' = "returned"
  /\ UNCHANGED <<ws, replies, notebooks, pools, jobs, runVars>>

NextParse == ParseResourceGroup

SpecParse == InitParse /\ [][NextParse]_vars

\* ---- the segments of the path, read off the identifier itself
\* position k holds a whole segment that is the marker
MarkerAt(k) ==
  /\ ws[k] = "resourceGroups"
  /\ k = 1 \/ ws[k - 1] = "/"
  /\ k = Len(ws) \/ ws[k + 1] = "/"
MarkerPositions == {k \in 1..Len(ws) : MarkerAt(k)}
FirstMarker == CHOOSE k \in MarkerPositions : \A h \in MarkerPositions : k <= h
\* the segment after the separator at position k: up to the next separator
SegmentAfter(k) ==
  LET stops == {j \in (k + 1)..Len(ws) : ws[j] = "/"} \cup {Len(ws) + 1}
      stop == CHOOSE j \in stops : \A h \in stops : j <= h
  IN SubSeq(ws, k + 1, stop - 1)
HasFollower == MarkerPositions # {} /\ FirstMarker < Len(ws)
\* equality of two Python values of possibly different types
SameValue(a, b) == ToString(a) = ToString(b)

\* C15: parse_resource_group_from_id always returns a value: for a path
\* that contains the marker segment it returns the segment following the
\* first occurrence of the marker, and for a path without the marker, or
\* with the marker as its last segment, it returns None.
C15_SegmentAfterFirstMarkerOrNone ==
  ws_pc = "returned" =>
    IF HasFollower
    THEN SameValue(workspace_data.value, SegmentAfter(FirstMarker + 1))
    ELSE SameValue(workspace_data.value, None)

C15_Witness ==
  /\ ws_pc = "returned"
  /\ Cardinality(MarkerPositions) = 2
  /\ HasFollower
  /\ SegmentAfter(FirstMarker + 1) = <<"rg1">>
  /\ SameValue(workspace_data.value, <<"rg1">>)

\* ------------------------------------------- the two aggregations, reordered
MaxAggJobs == 2

\* the fixed pool list: pools of one name, so that a reference to the other
\* name is dangling and two pools of the list can carry the same name
AggPools == {p \in RawPools : p.name = "p1"}

Permute(s, f) == [k \in 1..Len(s) |-> s[f[k]]]
Reorderings(s) == {Permute(s, f) : f \in Permutations(1..Len(s))}
Aggregations == [nb_by_runtime |-> NbByRuntime(notebooks, pools),
                 jobs_by_runtime |-> JobsByRuntime(jobs)]

InitAgg ==
  /\ ws_pc = "aggregate"
  /\ notebooks \in SeqsUpTo(RawNotebooks, MaxNotebooks)
  /\ pools \in SeqsUpTo(AggPools, MaxPools)
  /\ jobs \in SeqsUpTo(RawJobs, MaxAggJobs)
  /\ ws = None
  /\ replies = NoReplies
  /\ workspace_data = None
  /\ RunOff

\* the two counting loops over the lists as fetched
Aggregate ==
  /\ ws_pc = "aggregate"
  /\ workspace_data' = Aggregations
  /\ ws_pc' = "aggregated"
  /\ UNCHANGED <<ws, replies, notebooks, pools, jobs, runVars>>

\* the same loops when the fetchers hand over the same records in another
\* order, the pool list being the same
AggregateReordered ==
  /\ ws_pc \in {"aggregated", "aggregated_reordered"}
  /\ \E nbs \in Reorderings(notebooks), js \in Reorderings(jobs) :
       /\ nbs # notebooks \/ js # jobs
       /\ notebooks' = nbs
       /\ jobs' = js
       /\ workspace_data' = [nb_by_runtime |-> NbByRuntime(nbs, pools),
                             jobs_by_runtime |-> JobsByRuntime(js)]
  /\ ws_pc' = "aggregated_reordered"
  /\ UNCHANGED <<ws, replies, pools, runVars>>

NextAgg ==
  \/ Aggregate
  \/ AggregateReordered

SpecAgg == InitAgg /\ [][NextAgg]_vars

\* C16: both aggregations are order-independent: with the pool list fixed,
\* counting the notebooks in any other order gives the same by-runtime map,
\* counting the jobs in any other order gives the same by-runtime map, and a
\* job without requiredSparkVersion is counted under "Unknown".
C16_ReorderingKeepsBothMaps ==
  [][ws_pc # "aggregate" =>
       /\ workspace_data'.nb_by_runtime = workspace_data.nb_by_runtime
       /\ workspace_data'.jobs_by_runtime = workspace_data.jobs_by_runtime
       /\ Count(workspace_data'.jobs_by_runtime, "Unknown")
            = Cardinality({k \in 1..Len(jobs') :
                             "requiredSparkVersion" \notin DOMAIN jobs'[k].properties})]_vars

C16_Witness ==
  /\ ws_pc = "aggregated_reordered"
  /\ Cardinality(DOMAIN workspace_data.nb_by_runtime) >= 2
  /\ Cardinality(DOMAIN workspace_data.jobs_by_runtime) = 2
  /\ Len(pools) = MaxPools
  /\ Count(workspace_data.jobs_by_runtime, "Unknown") = 1
  /\ JobRuntime(jobs[1]) = "Unknown"
  /\ ResolveSparkVersion(notebooks[1], pools) = "No pool attached"
  /\ ResolveSparkVersion(notebooks[Len(notebooks)], pools) \in SparkVersions

\* ---- every record counted under one label
RECURSIVE SumOver(_, _)
SumOver(m, labels) ==
  IF labels = {} THEN 0
  ELSE LET l == CHOOSE x \in labels : TRUE
       IN m[l] + SumOver(m, labels \ {l})
SumValues(m) == SumOver(m, DOMAIN m)

\* C17: in every exported workspace record the values of notebooks.by_runtime
\* sum to notebooks.count, the values of spark_job_definitions.by_runtime sum
\* to spark_job_definitions.count, and no label carries a count of zero.
C17_ByRuntimeSumsToCount ==
  Exported =>
    /\ SumValues(workspace_data.notebooks.by_runtime) = workspace_data.notebooks.count
    /\ SumValues(workspace_data.spark_job_definitions.by_runtime)
         = workspace_data.spark_job_definitions.count
    /\ workspace_data.notebooks.count = Len(notebooks)
    /\ workspace_data.spark_job_definitions.count = Len(jobs)
    /\ \A l \in DOMAIN workspace_data.notebooks.by_runtime :
         workspace_data.notebooks.by_runtime[l] >= 1
    /\ \A l \in DOMAIN workspace_data.spark_job_definitions.by_runtime :
         workspace_data.spark_job_definitions.by_runtime[l] >= 1

C17_Witness ==
  /\ Exported
  /\ workspace_data.notebooks.count = MaxNotebooks
  /\ Cardinality(DOMAIN workspace_data.notebooks.by_runtime) = 2
  /\ \E l \in DOMAIN workspace_data.notebooks.by_runtime :
       workspace_data.notebooks.by_runtime[l] >= 2
  /\ workspace_data.spark_job_definitions.count >= 1

====
